---- MODULE Spec2Model ----
(***************************************************************************)
(* A model of the DTI quality-control session of dti_qc_gui.pyw: the       *)
(* DtiQAGui widget's session attributes (dti_obj, image_data, pixel_sizes),*)
(* the four sliders, the exclusion line edit, and the handlers wired to    *)
(* them in DtiQAGui.__init__; one call of rescaleImageData, step by step;  *)
(* one call of numpy2grayscaleqimage; and the three previews with their    *)
(* mirror and rotate boxes, the slices read for them and the clicks on     *)
(* them.                                                                   *)
(*                                                                         *)
(* Python values are modelled as follows.  None is the record None.  A     *)
(* tuple or list is a function on 0..n-1 or a sequence.  An element of a   *)
(* typed list is a record [t, v]: t is its Python type ("int", "float"),   *)
(* v its numeric value.  bool literals are instances of int that compare   *)
(* equal to 0 and 1 and are covered by the "int" elements; a long literal  *)
(* (Python 2) is no instance of int and behaves as the "float" element.    *)
(* A text of the exclusion line edit is a record [form, elems]: what the   *)
(* expression is ("list": a bracketed list, "syntax": text that does not   *)
(* parse, "name": an undefined identifier, "scalar": one integer without   *)
(* brackets, "divzero": an expression dividing by zero) and, for a list,   *)
(* its elements in the order written.                                      *)
(***************************************************************************)
EXTENDS Integers, Sequences, FiniteSets, TLC

VARIABLES
    dti_obj,        \* DtiQAGui.dti_obj: None or the ProcessDTI object
    image_data,     \* DtiQAGui.image_data: None or the rescaled 8 bit volume
    pixel_sizes,    \* DtiQAGui.pixel_sizes: None or the voxel spacing tuple
    slider_imageno, \* ui.horizontalSlider_imageno: [value, maximum]
    slider_x,       \* ui.horizontalSlider_x
    slider_y,       \* ui.horizontalSlider_y
    slider_z,       \* ui.horizontalSlider_z
    excl_text,      \* text of ui.lineEdit_exclude
    disk,           \* FILENAMEs whose QC output saveData has written
    lastOp,         \* the handler that ran last
    msg,            \* title of the QMessageBox the last handler showed
    raised,         \* exception that escaped the last handler
    parse_err,      \* exception of set(eval(txt)) in the last text validation
    exc,            \* local `exc` of the last text validation
    did_exception_happen, \* local of the last save_data
    rescale,        \* one call of rescaleImageData: its arguments and locals
    checks,         \* the checked ones of the ui.checkBox_preview_* boxes
    previews,       \* the slices the last handler read from image_data
    render          \* one call of numpy2grayscaleqimage: arguments and result

vars == <<dti_obj, image_data, pixel_sizes, slider_imageno, slider_x, slider_y,
          slider_z, excl_text, disk, lastOp, msg, raised, parse_err, exc,
          did_exception_happen, rescale, checks, previews, render>>

sliders == <<slider_imageno, slider_x, slider_y, slider_z>>

(***************************************************************************)
(* Bounds of the model.                                                    *)
(***************************************************************************)
\* Largest direction count D of a dataset file.
MaxDirs == 2
\* Longest list the user types into the exclusion line edit.
MaxLen == 2
\* Most voxels of one direction of a volume handed to rescaleImageData.
MaxVoxels == 2

None == [none |-> TRUE]

NoExc == [parsed |-> FALSE, value |-> {}]

(***************************************************************************)
(* Input files.  Each nifti file has a fixed spatial shape and voxel       *)
(* spacing; its direction count and the lengths of the b-value and         *)
(* b-vector files given with it vary.                                      *)
(***************************************************************************)
Files == {"a.nii", "b.nii"}

Tuple3(a, b, c) == [i \in 0..2 |-> CASE i = 0 -> a [] i = 1 -> b [] OTHER -> c]

Tuple4(a, b, c, d) ==
    [i \in 0..3 |-> CASE i = 0 -> a [] i = 1 -> b [] i = 2 -> c [] OTHER -> d]

\* Spatial shape (X, Y, Z) of a file's volume.
FileDims(f) == IF f = "a.nii" THEN Tuple3(2, 2, 2) ELSE Tuple3(4, 3, 2)

\* header['pixdim'][0..3] of a file: qfac and the three voxel spacings.
FilePixdim(f) == IF f = "a.nii" THEN Tuple4(1, 1, 1, 1) ELSE Tuple4(1, 1, 1, 2)

DirCounts == 1..MaxDirs

(***************************************************************************)
(* dti_processing.ProcessDTI, the collaborator holding the dataset.  Its   *)
(* source is not part of the files at hand; the operations the widget      *)
(* calls are modelled from their description.  What EXCLUDED_DIRS holds    *)
(* on a freshly constructed object is left open (empty, or every           *)
(* direction): load_data does not rely on it and calls clearExcluded.      *)
(***************************************************************************)
ProcessDTI(nifti, ndirs, nbvals, nbvecs, shape_raises, fresh) ==
    [FILENAME |-> nifti,
     DIMS |-> FileDims(nifti),
     pixdim |-> FilePixdim(nifti),
     ndirs |-> ndirs,
     bvals_shape0 |-> nbvals,
     bvecs_shape1 |-> nbvecs,
     shape_raises |-> shape_raises,
     EXCLUDED_DIRS |-> fresh]

getSignalLength(obj) == obj.ndirs

clearExcluded(obj) == [obj EXCEPT !.EXCLUDED_DIRS = {}]

addExcluded(obj, i) ==
    IF i \in 0..(obj.ndirs - 1)
    THEN [obj EXCEPT !.EXCLUDED_DIRS = @ \cup {i}]
    ELSE obj

(***************************************************************************)
(* Qt's QAbstractSlider (minimum 0): setMaximum and setValue keep the      *)
(* value inside [0, maximum].                                              *)
(***************************************************************************)
Clamp(v, hi) == IF v < 0 THEN 0 ELSE IF v > hi THEN hi ELSE v

setMaximum(s, m) ==
    LET hi == IF m < 0 THEN 0 ELSE m
    IN [value |-> Clamp(s.value, hi), maximum |-> hi]

setValue(s, v) == [s EXCEPT !.value = Clamp(v, s.maximum)]

(***************************************************************************)
(* Python text handling: eval, set, sorted, str.                           *)
(***************************************************************************)
Int_(v) == [t |-> "int", v |-> v]

\* Elements the user can type in a list: integers from -1 (negative) to
\* MaxDirs (above every dataset's last direction), and a float.
Elems == {Int_(v) : v \in -1..MaxDirs} \cup {[t |-> "float", v |-> 1]}

isinstance_int(e) == e.t = "int"

ListText(s) == [form |-> "list", elems |-> s]

TypedTexts ==
    {ListText(s) : s \in UNION {[1..n -> Elems] : n \in 0..MaxLen}}
      \cup {[form |-> f, elems |-> <<>>] :
               f \in {"syntax", "name", "scalar", "divzero"}}

\* set(eval(txt)): the exception it raises ("none" if it returns) and the set.
set_eval(txt) ==
    CASE txt.form = "list" ->
            [raises |-> "none", value |-> {txt.elems[k] : k \in DOMAIN txt.elems}]
      [] txt.form = "syntax" -> [raises |-> "SyntaxError", value |-> {}]
      [] txt.form = "name" -> [raises |-> "NameError", value |-> {}]
      [] txt.form = "scalar" -> [raises |-> "TypeError", value |-> {}]
      [] OTHER -> [raises |-> "ZeroDivisionError", value |-> {}]

Minimum(S) == CHOOSE m \in S : \A n \in S : m <= n

RECURSIVE sorted(_)
sorted(S) ==
    IF S = {} THEN <<>>
    ELSE LET m == Minimum(S) IN <<m>> \o sorted(S \ {m})

\* str(a list of ints): the text of the list.
str(seq) == ListText([k \in DOMAIN seq |-> Int_(seq[k])])


(***************************************************************************)
(* Attributes of the DtiQAGui instance (class attributes and those set in  *)
(* __init__); reading any other attribute of self raises AttributeError.   *)
(***************************************************************************)
InstanceAttributes ==
    {"dti_obj", "nifti_data", "image_data", "preview_data", "pixel_sizes",
     "ui", "statusbar", "rescaleProgressBar", "settings", "keyboard_exclude",
     "rescaleSignal"}

hasattr(name) == name \in InstanceAttributes

(***************************************************************************)
(* Exclusion handlers.                                                     *)
(***************************************************************************)
\* __update_excluded_list: the text it puts in the line edit for dti_obj = obj.
__update_excluded_list(obj) ==
    IF obj # None THEN str(sorted(obj.EXCLUDED_DIRS)) ELSE str(<<>>)

\* Every handler starts with no message shown and nothing raised.
Quiet == msg' = "none" /\ raised' = "none"

\* The text validation did not run in this handler.
NoParse == parse_err' = "none" /\ exc' = NoExc

\* saveData did not run, or returned, in this handler.
NoSaveError == did_exception_happen' = FALSE

\* No preview is drawn in this handler.
NoPreview == previews' = {}

\* Mutant of out_of_range: the upper limit is not tested.
out_of_range_no_upper(i, lastdir) == i < 0

\* Mutant of out_of_range: direction 0 is taken for out of range.
out_of_range_drops_zero(i, lastdir) == i <= 0 \/ i > lastdir

\* Line 388: the test that puts i in `rem`.
out_of_range(i, lastdir) == i < 0 \/ i > lastdir

\* Mutant of editing_error: the line edit is not set back.
editing_error_no_revert(txt) ==
    /\ msg' = "Editing Error"
    /\ raised' = "none"
    /\ excl_text' = txt
    /\ UNCHANGED dti_obj

\* Lines 375-377, 379-381, 385-387: the message box, the line edit set back
\* to the list of the object's set, return.
editing_error(txt) ==
    /\ msg' = "Editing Error"
    /\ raised' = "none"
    /\ excl_text' = __update_excluded_list(dti_obj)
    /\ UNCHANGED dti_obj

\* Lines 382-393: the loop over exc and the assignment of the new set.
validate_parsed(txt, parsed) ==
    LET lastdir == getSignalLength(dti_obj) - 1 IN
    IF \E i \in parsed : ~isinstance_int(i)
    THEN editing_error(txt)
    ELSE LET rem == {i \in parsed : out_of_range(i.v, lastdir)}
             new == [dti_obj EXCEPT
                        !.EXCLUDED_DIRS = {i.v : i \in parsed \ rem}]
         IN /\ dti_obj' = new
            /\ excl_text' = __update_excluded_list(new)
            /\ Quiet

\* editingFinished of the line edit holding txt.  With no dataset the line
\* edit is disabled and holds what __update_excluded_list last put there.
__validate_text_excluded(txt) ==
    /\ lastOp' = "replace"
    /\ NoSaveError
    /\ UNCHANGED <<image_data, pixel_sizes, sliders, disk>>
    /\ NoPreview
    /\ IF dti_obj = None
       THEN Quiet /\ NoParse /\ UNCHANGED <<dti_obj, excl_text>>
       ELSE LET r == set_eval(txt) IN
            /\ parse_err' = r.raises
            /\ exc' = [parsed |-> r.raises = "none", value |-> r.value]
            /\ CASE r.raises \in {"SyntaxError", "NameError"} ->
                      editing_error(txt)
                 [] r.raises \in {"TypeError", "ZeroDivisionError"} ->
                      \* no except clause matches: the exception leaves the
                      \* handler and the line edit keeps the typed text
                      /\ msg' = "none"
                      /\ raised' = r.raises
                      /\ excl_text' = txt
                      /\ UNCHANGED dti_obj
                 [] OTHER -> validate_parsed(txt, r.value)

get_current_dir == slider_imageno.value

\* Mutant of exclude_current: the set is replaced by the one direction.
exclude_current_only(obj, dir) == [obj EXCEPT !.EXCLUDED_DIRS = {dir}]

\* Lines 396-398 for a loaded dataset: the object after addExcluded.
exclude_current(obj, dir) == addExcluded(obj, dir)

\* Mutant of __exclude_dir: dti_obj is used without the test for None.
__exclude_dir_unguarded ==
    /\ lastOp' = "add"
    /\ NoParse /\ NoSaveError
    /\ UNCHANGED <<image_data, pixel_sizes, sliders, disk>>
    /\ NoPreview
    /\ IF dti_obj # None
       THEN LET new == exclude_current(dti_obj, get_current_dir) IN
            /\ Quiet
            /\ dti_obj' = new
            /\ excl_text' = __update_excluded_list(new)
       ELSE /\ msg' = "none" /\ raised' = "AttributeError"
            /\ UNCHANGED <<dti_obj, excl_text>>

__exclude_dir ==
    /\ lastOp' = "add"
    /\ Quiet /\ NoParse /\ NoSaveError
    /\ UNCHANGED <<image_data, pixel_sizes, sliders, disk>>
    /\ NoPreview
    /\ IF dti_obj # None
       THEN LET new == exclude_current(dti_obj, get_current_dir) IN
            /\ dti_obj' = new
            /\ excl_text' = __update_excluded_list(new)
       ELSE UNCHANGED <<dti_obj, excl_text>>

\* Mutant of __reset_excluded: the set is shown again but not emptied.
__reset_excluded_keeps ==
    /\ lastOp' = "clear"
    /\ Quiet /\ NoParse /\ NoSaveError
    /\ UNCHANGED <<image_data, pixel_sizes, sliders, disk, dti_obj>>
    /\ NoPreview
    /\ excl_text' = __update_excluded_list(dti_obj)

__reset_excluded ==
    /\ lastOp' = "clear"
    /\ Quiet /\ NoParse /\ NoSaveError
    /\ UNCHANGED <<image_data, pixel_sizes, sliders, disk>>
    /\ NoPreview
    /\ IF dti_obj # None
       THEN LET new == [dti_obj EXCEPT !.EXCLUDED_DIRS = {}] IN
            /\ dti_obj' = new
            /\ excl_text' = __update_excluded_list(new)
       ELSE UNCHANGED <<dti_obj, excl_text>>


(***************************************************************************)
(* Loading a dataset.                                                      *)
(***************************************************************************)
\* Mutant of is_data_correct: one matching length is enough.
is_data_correct_or(obj) ==
    IF obj.shape_raises THEN FALSE
    ELSE obj.bvals_shape0 = getSignalLength(obj)
           \/ obj.bvecs_shape1 = getSignalLength(obj)

\* Lines 649-657: the sanity check.  Reading a shape that is not there
\* raises inside the try and is caught.
is_data_correct(obj) ==
    IF obj.shape_raises THEN FALSE
    ELSE obj.bvals_shape0 = getSignalLength(obj)
           /\ obj.bvecs_shape1 = getSignalLength(obj)

\* Mutant of installed: clearExcluded is not called.
installed_not_cleared(obj) == obj

\* Lines 660-661: the object that becomes self.dti_obj.
installed(obj) == clearExcluded(obj)

\* Line 666: the rescaled volume of obj, by its shape and the file it is of.
rescaled_volume(obj) ==
    [shape |-> Tuple4(obj.DIMS[0], obj.DIMS[1], obj.DIMS[2], getSignalLength(obj)),
     of |-> obj.FILENAME]

\* Lines 286-290 (and 292-296, 298-302) for one slider and its axis length.
preview_slider(s, n) == setValue(setMaximum(s, n - 1), n \div 2)

(***************************************************************************)
(* The slices read from image_data.  The valueChanged signal of the        *)
(* direction slider runs __update_previews, that of the x, y or z slider   *)
(* the __update_preview_ method of its view; each reads one slice of       *)
(* image_data at the values the sliders have at that moment.  A read is    *)
(* the record [slaxis, index, dir]: the view, the index along its slicing  *)
(* axis and the direction index.                                           *)
(***************************************************************************)
preview(slaxis, index, dir) == [slaxis |-> slaxis, index |-> index, dir |-> dir]

\* The place of a view's slicing axis in image_data.shape.
axis_no(slaxis) == CASE slaxis = "x" -> 0 [] slaxis = "y" -> 1 [] OTHER -> 2

\* numpy takes the integer i as an index along an axis of n elements.
indexable(i, n) == -n <= i /\ i < n

\* image_data[...] of a read succeeds on a volume of this shape; otherwise
\* it raises IndexError.
readable(p, shape) ==
    indexable(p.index, shape[axis_no(p.slaxis)]) /\ indexable(p.dir, shape[3])

\* Lines 318-322: the x, the y, then the z preview at the sliders' values;
\* the IndexError of one read ends the slot before the next.
__update_previews(shape, x, y, z, dir) ==
    LET px == preview("x", x, dir)
        py == preview("y", y, dir)
        pz == preview("z", z, dir)
    IN  {px} \cup (IF readable(px, shape)
                   THEN {py} \cup (IF readable(py, shape) THEN {pz} ELSE {})
                   ELSE {})

\* Lines 410-411 after line 666: the reads while __dataset_ok resets the
\* direction slider of a volume of this shape.  setMaximum and setValue(0)
\* each emit valueChanged when they change the value; the x, y and z
\* sliders are still where they were before the load.
__dataset_ok_previews(shape) ==
    LET lowered == setMaximum(slider_imageno, shape[3] - 1).value
        at(dir) == __update_previews(shape, slider_x.value, slider_y.value,
                                     slider_z.value, dir)
    IN  (IF lowered # slider_imageno.value THEN at(lowered) ELSE {})
          \cup (IF lowered # 0 THEN at(0) ELSE {})

\* Lines 286-290 (and 292-296, 298-302): the reads for one slider s of the
\* view slaxis and its axis length n, the direction slider being at 0.
\* setMaximum emits when it lowers the value; then either line 288-289 or
\* setValue emits with n/2.
preview_slider_previews(slaxis, s, n) ==
    LET lowered == setMaximum(s, n - 1).value
    IN  (IF lowered # s.value THEN {preview(slaxis, lowered, 0)} ELSE {})
          \cup {preview(slaxis, n \div 2, 0)}

\* The reads of the x, y and z sliders' valueChanged in a handler that
\* moved the sliders.
moved_previews ==
    (IF slider_x' # slider_x
     THEN {preview("x", slider_x'.value, slider_imageno'.value)} ELSE {})
    \cup (IF slider_y' # slider_y
          THEN {preview("y", slider_y'.value, slider_imageno'.value)} ELSE {})
    \cup (IF slider_z' # slider_z
          THEN {preview("z", slider_z'.value, slider_imageno'.value)} ELSE {})

\* Lines 660-673: the dataset is installed; __dataset_ok, then
\* __update_preview_section.
load_accepted(obj) ==
    LET new == installed(obj)
        img == rescaled_volume(new)
    IN /\ dti_obj' = new
       /\ image_data' = img
       /\ pixel_sizes' = [tuple |-> new.pixdim]
       /\ slider_imageno' =
              setValue(setMaximum(slider_imageno, getSignalLength(new) - 1), 0)
       /\ excl_text' = __update_excluded_list(new)
       /\ slider_x' = preview_slider(slider_x, img.shape[0])
       /\ slider_y' = preview_slider(slider_y, img.shape[1])
       /\ slider_z' = preview_slider(slider_z, img.shape[2])
       /\ previews' = __dataset_ok_previews(img.shape)
                        \cup preview_slider_previews("x", slider_x, img.shape[0])
                        \cup preview_slider_previews("y", slider_y, img.shape[1])
                        \cup preview_slider_previews("z", slider_z, img.shape[2])
       /\ Quiet

\* Lines 429-449, __dataset_not_ok: the direction slider and the line edit.
__dataset_not_ok ==
    /\ slider_imageno' = setMaximum(setValue(slider_imageno, 0), 0)
    /\ excl_text' = __update_excluded_list(dti_obj)

\* Mutant of load_rejected: __dataset_not_ok is called whatever dti_obj is.
load_rejected_resets(obj) ==
    /\ msg' = "Error Loading"
    /\ raised' = "none"
    /\ UNCHANGED <<dti_obj, image_data, pixel_sizes, slider_x, slider_y, slider_z>>
    /\ NoPreview
    /\ __dataset_not_ok

\* Lines 675-677: the dataset is refused.
load_rejected(obj) ==
    /\ msg' = "Error Loading"
    /\ raised' = "none"
    /\ UNCHANGED <<dti_obj, image_data, pixel_sizes, slider_x, slider_y, slider_z>>
    /\ NoPreview
    /\ IF dti_obj = None
       THEN __dataset_not_ok
       ELSE UNCHANGED <<slider_imageno, excl_text>>

FreshSets(ndirs) == {{}, 0..(ndirs - 1)}

load_data(nifti, ndirs, nbvals, nbvecs, shape_raises, fresh) ==
    LET obj == ProcessDTI(nifti, ndirs, nbvals, nbvecs, shape_raises, fresh) IN
    /\ lastOp' = "load"
    /\ NoParse /\ NoSaveError
    /\ UNCHANGED disk
    /\ IF is_data_correct(obj) THEN load_accepted(obj) ELSE load_rejected(obj)

(***************************************************************************)
(* Saving.  saveData of the collaborator either writes the QC files of the *)
(* dataset or raises.                                                      *)
(***************************************************************************)
\* Lines 693-694: the error message names self.parameter_box...; the
\* attribute is read before the message box is shown.
save_failed ==
    /\ IF hasattr("parameter_box")
       THEN msg' = "SAVE ERROR" /\ raised' = "none"
       ELSE msg' = "none" /\ raised' = "AttributeError"
    /\ UNCHANGED disk

\* Mutant of save_data: saveData is called for an empty exclusion set too.
save_data_any_set(save_raises) ==
    /\ lastOp' = "save"
    /\ NoParse
    /\ UNCHANGED <<dti_obj, image_data, pixel_sizes, sliders, excl_text>>
    /\ NoPreview
    /\ IF dti_obj # None
       THEN /\ did_exception_happen' = save_raises
            /\ IF save_raises
               THEN save_failed
               ELSE /\ msg' = "SAVE OK"
                    /\ raised' = "none"
                    /\ disk' = disk \cup {dti_obj.FILENAME}
       ELSE Quiet /\ NoSaveError /\ UNCHANGED disk

save_data(save_raises) ==
    /\ lastOp' = "save"
    /\ NoParse
    /\ UNCHANGED <<dti_obj, image_data, pixel_sizes, sliders, excl_text>>
    /\ NoPreview
    /\ IF dti_obj # None /\ dti_obj.EXCLUDED_DIRS # {}
       THEN /\ did_exception_happen' = save_raises
            /\ IF save_raises
               THEN save_failed
               ELSE /\ msg' = "SAVE OK"
                    /\ raised' = "none"
                    /\ disk' = disk \cup {dti_obj.FILENAME}
       ELSE Quiet /\ NoSaveError /\ UNCHANGED disk

(***************************************************************************)
(* The user moves a slider of a loaded dataset (the sliders are enabled by *)
(* __dataset_ok and __update_preview_section).                             *)
(***************************************************************************)
slide(s, v) ==
    /\ dti_obj # None
    /\ v \in 0..s.maximum
    /\ v # s.value
    /\ lastOp' = "slide"
    /\ Quiet /\ NoParse /\ NoSaveError
    /\ UNCHANGED <<dti_obj, image_data, pixel_sizes, excl_text, disk>>

imageno_valueChanged(v) ==
    /\ slide(slider_imageno, v)
    /\ slider_imageno' = setValue(slider_imageno, v)
    /\ UNCHANGED <<slider_x, slider_y, slider_z>>
    /\ previews' = __update_previews(image_data.shape, slider_x.value,
                                     slider_y.value, slider_z.value,
                                     slider_imageno'.value)

x_valueChanged(v) ==
    /\ slide(slider_x, v)
    /\ slider_x' = setValue(slider_x, v)
    /\ UNCHANGED <<slider_imageno, slider_y, slider_z>>
    /\ previews' = moved_previews

y_valueChanged(v) ==
    /\ slide(slider_y, v)
    /\ slider_y' = setValue(slider_y, v)
    /\ UNCHANGED <<slider_imageno, slider_x, slider_z>>
    /\ previews' = moved_previews

z_valueChanged(v) ==
    /\ slide(slider_z, v)
    /\ slider_z' = setValue(slider_z, v)
    /\ UNCHANGED <<slider_imageno, slider_x, slider_y>>
    /\ previews' = moved_previews

(***************************************************************************)
(* rescaleImageData.  A sample is an integer; a float that the function    *)
(* computes (the percentile, a clipped sample) is held in thousandths, an  *)
(* integer m standing for m/1000, which is exact for quantile 99.5.  data  *)
(* is read one direction at a time (data[:, :, :, dir_no] in iteration     *)
(* dir_no) and never written, so the model draws each direction when the   *)
(* loop reads it; the fastest mode reads the flattened volume at once.     *)
(* build is what the numpy build does with a float that uint8 cannot       *)
(* represent, which C leaves undefined: "wrap" keeps the low byte of the   *)
(* truncated value, "saturate" gives the nearest of 0 and 255.  The fields *)
(* divided_by_zero and overflowed record, of the latest cast_uint8, that   *)
(* normConst was 0 and that a float outside uint8 was converted.           *)
(***************************************************************************)
\* maxValue of the fastest mode.
maxValue_fastest == 4095
\* The default quantile, 99.5, in thousandths of the sample count.
quantile == 995

FastSamples == {-20, 4095, 4112}

Samples == {-8, 0, 4, 10}

Builds == {"wrap", "saturate"}

\* C's conversion of the float num/den (den # 0) to an integer: toward zero.
Trunc(num, den) ==
    LET n == IF den < 0 THEN -num ELSE num
        d == IF den < 0 THEN -den ELSE den
    IN  IF n >= 0 THEN n \div d ELSE -((-n) \div d)

\* Is the float num/den one that uint8 represents once truncated?
fits_uint8(num, den) == den # 0 /\ Trunc(num, den) \in 0..255

\* numpy.uint8 of the float num/den; den = 0 is nan (num = 0) or +-inf.
uint8(num, den, build) ==
    IF den = 0
    THEN IF build = "saturate" /\ num > 0 THEN 255 ELSE 0
    ELSE LET t == Trunc(num, den)
         IN  IF t \in 0..255 THEN t
             ELSE IF build = "wrap" THEN t % 256
             ELSE IF t < 0 THEN 0 ELSE 255

\* uint8(255.*data/normConst), data and normConst in thousandths.
cast_uint8(data, normConst, build) ==
    [i \in DOMAIN data |-> uint8(255 * data[i], normConst, build)]

\* The k-th smallest (from 0) of the samples a.
kth(a, k) ==
    CHOOSE v \in {a[i] : i \in DOMAIN a} :
        /\ Cardinality({i \in DOMAIN a : a[i] < v}) <= k
        /\ k < Cardinality({i \in DOMAIN a : a[i] <= v})

\* numpy.percentile(a, q), linear between the two nearest ranks; thousandths.
percentile(a, q) ==
    LET n   == Len(a)
        pos == (n - 1) * q
        lo  == pos \div 1000
        hi  == IF lo + 1 > n - 1 THEN n - 1 ELSE lo + 1
    IN  1000 * kth(a, lo) + (kth(a, hi) - kth(a, lo)) * (pos % 1000)

\* cdata.flat[flatnonzero(cdata.flatten() >= maxValue)] = maxValue: an
\* integer array keeps the truncated maxValue, a float array maxValue itself.
clipped(cdata, maxValue, dtype) ==
    [i \in DOMAIN cdata |->
        IF 1000 * cdata[i] >= maxValue
        THEN IF dtype = "float" THEN maxValue ELSE 1000 * Trunc(maxValue, 1000)
        ELSE 1000 * cdata[i]]

\* maxValue of one direction: the robust maximum or the direction maximum.
maxValue_of(cdata, quantileFunc) ==
    IF quantileFunc = "percentile"
    THEN percentile(cdata, quantile)
    ELSE 1000 * kth(cdata, Len(cdata) - 1)

\* What cast_uint8 is handed for one direction.
scaled_input(cdata, quantileFunc, dtype) ==
    IF quantileFunc = "percentile"
    THEN clipped(cdata, maxValue_of(cdata, quantileFunc), dtype)
    ELSE [i \in DOMAIN cdata |-> 1000 * cdata[i]]

emitted_repeats(r) ==
    IF r.signal THEN r.events \o <<r.dir_no + 1, r.dir_no + 1>> ELSE r.events

emitted_zero_based(r) ==
    IF r.signal THEN Append(r.events, r.dir_no) ELSE r.events

\* signal.emit(dir_no + 1), when a signal was passed.
emitted(r) == IF r.signal THEN Append(r.events, r.dir_no + 1) ELSE r.events

NoCall == [pc |-> "none"]

\* The state on entry: the arguments, and nothing computed yet.
rescale_entry(fastest, quantileFunc, signal, dtype, build, voxels, ndirs) ==
    [pc |-> "call", fastest |-> fastest, quantileFunc |-> quantileFunc,
     signal |-> signal, dtype |-> dtype, build |-> build,
     shape |-> <<voxels, ndirs>>, dir_no |-> 0, cdata |-> <<>>, maxValue |-> 0,
     output |-> <<>>, written |-> 0, events |-> <<>>, divided_by_zero |-> FALSE,
     overflowed |-> FALSE]

\* if fastest: return cast_uint8(data, 4095.)
rescale_fastest ==
    /\ rescale.pc = "call" /\ rescale.fastest
    /\ \E data \in [1..(rescale.shape[1] * rescale.shape[2]) -> FastSamples] :
          LET d == [i \in DOMAIN data |-> 1000 * data[i]]
              n == 1000 * maxValue_fastest
          IN  rescale' = [rescale EXCEPT
                  !.pc = "return", !.cdata = data, !.maxValue = n,
                  !.output = cast_uint8(d, n, rescale.build),
                  !.written = rescale.shape[2],
                  !.overflowed = \E i \in DOMAIN d : ~fits_uint8(255 * d[i], n)]

\* for dir_no in range(data.shape[-1]): the emit that opens an iteration, or
\* the return after the last one.
rescale_for ==
    /\ \/ rescale.pc = "call" /\ ~rescale.fastest
       \/ rescale.pc = "for"
    /\ IF rescale.dir_no < rescale.shape[2]
       THEN rescale' = [rescale EXCEPT !.pc = "body", !.events = emitted(rescale)]
       ELSE rescale' = [rescale EXCEPT !.pc = "return"]

\* The rest of one iteration: the direction is read, clipped, cast, written.
rescale_dir ==
    /\ rescale.pc = "body"
    /\ \E cdata \in [1..rescale.shape[1] -> Samples] :
          LET n == maxValue_of(cdata, rescale.quantileFunc)
              d == scaled_input(cdata, rescale.quantileFunc, rescale.dtype)
          IN  rescale' = [rescale EXCEPT
                  !.pc = "for", !.cdata = cdata, !.maxValue = n,
                  !.output = cast_uint8(d, n, rescale.build),
                  !.written = @ + 1, !.dir_no = @ + 1,
                  !.divided_by_zero = (n = 0),
                  !.overflowed = \E i \in DOMAIN d : ~fits_uint8(255 * d[i], n)]

(***************************************************************************)
(* The three previews.  The preview of slicing axis z shows the slice      *)
(* image_data[:, :, z, dir] in label_preview_xy, that of x the slice       *)
(* image_data[x, :, :, dir] in label_preview_yz, that of y the slice       *)
(* image_data[:, y, :, dir] in label_preview_zx.  A slice is an array      *)
(* data of two axes; QImage takes data.shape[0] as its width, so the first *)
(* axis runs horizontally.  A pixel or a size is a pair <<x, y>>.  The     *)
(* pixmap of a view is redrawn whenever a slider or a box of the view      *)
(* changes, so its size is that of the image drawn from the current state. *)
(***************************************************************************)
DEFAULT_PREVIEW_SIZE == 256

Views == {"x", "y", "z"}

Boxes == {"xy_hflip", "xy_vflip", "yz_hflip", "yz_vflip", "yz_rotate",
          "zx_hflip", "zx_vflip", "zx_rotate"}

\* ui.checkBox_preview_<box>.isChecked()
isChecked(box) == box \in checks

\* The label of a view: xy, yz or zx.
__get_previewqlabel(slaxis) ==
    CASE slaxis = "z" -> "xy" [] slaxis = "x" -> "yz" [] OTHER -> "zx"

\* The volume axes (0, 1, 2 for x, y, z) that are the two axes of the slice.
slice_axes(slaxis) ==
    CASE slaxis = "z" -> <<0, 1>> [] slaxis = "x" -> <<1, 2>> [] OTHER -> <<0, 2>>

\* flipstate and rotate as __update_preview_<slaxis> pass them.
hflip(slaxis) == isChecked(__get_previewqlabel(slaxis) \o "_hflip")

vflip(slaxis) == isChecked(__get_previewqlabel(slaxis) \o "_vflip")

rotate(slaxis) ==
    slaxis # "z" /\ isChecked(__get_previewqlabel(slaxis) \o "_rotate")

is_data_loaded == dti_obj # None

\* data.shape of the slice of a view.
slice_shape(slaxis) ==
    <<dti_obj.DIMS[slice_axes(slaxis)[1]], dti_obj.DIMS[slice_axes(slaxis)[2]]>>

\* res as passed: (res[1], res[2]), (res[2], res[3]) or (res[1], res[3]).
slice_res(slaxis) ==
    <<pixel_sizes.tuple[slice_axes(slaxis)[1] + 1],
      pixel_sizes.tuple[slice_axes(slaxis)[2] + 1]>>

\* Mutant of rescaleSize: the aspect of the voxel counts, whatever the
\* spacing.
rescaleSize_voxels(shape, res) ==
    IF shape[2] >= shape[1]
    THEN <<Trunc(shape[1] * DEFAULT_PREVIEW_SIZE, shape[2]), DEFAULT_PREVIEW_SIZE>>
    ELSE <<DEFAULT_PREVIEW_SIZE, Trunc(shape[2] * DEFAULT_PREVIEW_SIZE, shape[1])>>

\* rescaleSize of numpy2grayscaleqimage: the preview box with its shorter
\* side shrunk to the slice's physical aspect.
rescaleSize(shape, res) ==
    LET verticalSize   == res[2] * shape[2]
        horizontalSize == res[1] * shape[1]
    IN  IF verticalSize >= horizontalSize
        THEN <<Trunc(horizontalSize * DEFAULT_PREVIEW_SIZE, verticalSize),
               DEFAULT_PREVIEW_SIZE>>
        ELSE <<DEFAULT_PREVIEW_SIZE,
               Trunc(verticalSize * DEFAULT_PREVIEW_SIZE, horizontalSize)>>

\* QImage.transformed(rot90): the pixel p of an image of the given size after
\* the rotation by 90 degrees, (x, y) -> (-y, x) moved back to the origin.
transformed(p, size) == <<size[2] - 1 - p[2], p[1]>>

\* QImage.mirrored(horizontal, vertical) for a pixel of an image of that size.
mirrored(p, size, horizontal, vertical) ==
    <<IF horizontal THEN size[1] - 1 - p[1] ELSE p[1],
      IF vertical THEN size[2] - 1 - p[2] ELSE p[2]>>

\* Size of the image numpy2grayscaleqimage returns, which is the pixmap's.
qpixmap_size(slaxis) ==
    LET s == rescaleSize(slice_shape(slaxis), slice_res(slaxis))
    IN  IF rotate(slaxis) THEN <<s[2], s[1]>> ELSE s

\* numpy2grayscaleqimage, for one element: the pixel of the returned image
\* that shows the centre of data[i, j]: scaled, rotated, mirrored.
numpy2grayscaleqimage(slaxis, i, j) ==
    LET shape == slice_shape(slaxis)
        s == rescaleSize(shape, slice_res(slaxis))
        scaled == <<((2 * i + 1) * s[1]) \div (2 * shape[1]),
                    ((2 * j + 1) * s[2]) \div (2 * shape[2])>>
    IN  IF rotate(slaxis)
        THEN mirrored(transformed(scaled, s), <<s[2], s[1]>>,
                      hflip(slaxis), vflip(slaxis))
        ELSE mirrored(scaled, s, hflip(slaxis), vflip(slaxis))

\* The boxes of one view.
BoxesOf(slaxis) ==
    {b \in Boxes : \E k \in {"_hflip", "_vflip", "_rotate"} :
                      b = __get_previewqlabel(slaxis) \o k}

\* Lines 561-568, get_current_x, get_current_y, get_current_z.
get_current(slaxis) ==
    CASE slaxis = "x" -> slider_x.value
      [] slaxis = "y" -> slider_y.value
      [] OTHER        -> slider_z.value

\* stateChanged of one box: the box is toggled and the preview of its view
\* redrawn, which reads image_data.
stateChanged(box) ==
    /\ checks' = (checks \ {box}) \cup ({box} \ checks)
    /\ lastOp' = "stateChanged"
    /\ msg' = "none"
    /\ raised' = IF is_data_loaded THEN "none" ELSE "TypeError"
    /\ NoParse /\ NoSaveError
    /\ UNCHANGED <<dti_obj, image_data, pixel_sizes, sliders, excl_text, disk>>
    /\ previews' = IF is_data_loaded
                   THEN {preview(s, get_current(s), get_current_dir) :
                           s \in {v \in Views : box \in BoxesOf(v)}}
                   ELSE {}

\* int(p/pm*n): the index along an axis of n voxels for the click coordinate
\* p on a pixmap side of pm pixels.
to_index(p, pm, n) == Trunc(p * n, pm)

\* Lines 501-510: x_val and y_val of a click on label_preview_xy, as they
\* are handed to the sliders.
values_z(position, pixmap_rect) ==
    LET pm == qpixmap_size("z")
        nifti_shape == dti_obj.DIMS
        x0 == to_index(position[1], pm[1], nifti_shape[1])
        y0 == to_index(position[2], pm[2], nifti_shape[0])
        y_val == IF isChecked("xy_vflip") THEN slider_y.maximum - y0 ELSE y0
        x_val == IF isChecked("xy_hflip") THEN slider_x.maximum - x0 ELSE x0
    IN  [x |-> x_val, y |-> y_val, z |-> None]

\* Lines 501-512: a click on label_preview_xy sets the x and y sliders.
clicked_z(position, pixmap_rect) ==
    LET val == values_z(position, pixmap_rect)
    IN  [x |-> setValue(slider_x, val.x), y |-> setValue(slider_y, val.y),
         z |-> slider_z]

\* Lines 513-527: y_val and z_val of a click on label_preview_yz.
values_x(position, pixmap_rect) ==
    LET pm == qpixmap_size("x")
        nifti_shape == dti_obj.DIMS
        y0 == IF isChecked("yz_rotate")
              THEN to_index(position[2], pm[2], nifti_shape[1])
              ELSE to_index(position[1], pm[1], nifti_shape[1])
        z0 == IF isChecked("yz_rotate")
              THEN slider_z.maximum
                     - to_index(position[1] - pixmap_rect.left, pm[1], nifti_shape[2])
              ELSE to_index(position[2] - pixmap_rect.top, pm[2], nifti_shape[2])
        z_val == IF isChecked("yz_vflip") THEN slider_z.maximum - z0 ELSE z0
        y_val == IF isChecked("yz_hflip") THEN slider_y.maximum - y0 ELSE y0
    IN  [x |-> None, y |-> y_val, z |-> z_val]

\* Lines 513-529: a click on label_preview_yz sets the z and y sliders.
clicked_x(position, pixmap_rect) ==
    LET val == values_x(position, pixmap_rect)
    IN  [x |-> slider_x, y |-> setValue(slider_y, val.y),
         z |-> setValue(slider_z, val.z)]

\* Lines 530-545: x_val and z_val of a click on label_preview_zx.
values_y(position, pixmap_rect) ==
    LET pm == qpixmap_size("y")
        nifti_shape == dti_obj.DIMS
        z0 == to_index(position[2] - pixmap_rect.top, pm[2], nifti_shape[2])
        x0 == to_index(position[1], pm[1], nifti_shape[0])
        z1 == IF isChecked("zx_vflip") THEN slider_z.maximum - z0 ELSE z0
        x1 == IF isChecked("zx_hflip") THEN slider_x.maximum - x0 ELSE x0
        z_val == IF isChecked("zx_rotate") THEN x1 ELSE z1
        x_val == IF isChecked("zx_rotate") THEN z1 ELSE x1
    IN  [x |-> x_val, y |-> None, z |-> z_val]

\* Lines 530-547: a click on label_preview_zx sets the z and x sliders.
clicked_y(position, pixmap_rect) ==
    LET val == values_y(position, pixmap_rect)
    IN  [x |-> setValue(slider_x, val.x), y |-> slider_y,
         z |-> setValue(slider_z, val.z)]

clicked_other_view(slaxis, position, pixmap_rect) ==
    CASE slaxis = "z" -> clicked_x(position, pixmap_rect)
      [] slaxis = "x" -> clicked_y(position, pixmap_rect)
      [] OTHER        -> clicked_z(position, pixmap_rect)

\* x_val, y_val, z_val at the end of the branch of the view (line 497: None
\* for the one the view does not compute), as a function of the axis number.
values(slaxis, position, pixmap_rect) ==
    LET val == CASE slaxis = "z" -> values_z(position, pixmap_rect)
                 [] slaxis = "x" -> values_x(position, pixmap_rect)
                 [] OTHER        -> values_y(position, pixmap_rect)
    IN  [a \in 0..2 |-> CASE a = 0 -> val.x [] a = 1 -> val.y [] OTHER -> val.z]

\* The sliders after __preview_clicked for a click at position (in the
\* label's coordinates) while the pixmap is drawn at pixmap_rect.
clicked(slaxis, position, pixmap_rect) ==
    CASE slaxis = "z" -> clicked_z(position, pixmap_rect)
      [] slaxis = "x" -> clicked_x(position, pixmap_rect)
      [] OTHER        -> clicked_y(position, pixmap_rect)

__preview_clicked(slaxis, position, pixmap_rect) ==
    /\ is_data_loaded /\ slaxis \in Views
    /\ LET s == clicked(slaxis, position, pixmap_rect)
       IN  slider_x' = s.x /\ slider_y' = s.y /\ slider_z' = s.z
    /\ lastOp' = "preview_clicked_" \o slaxis
    /\ Quiet /\ NoParse /\ NoSaveError
    /\ UNCHANGED <<dti_obj, image_data, pixel_sizes, slider_imageno, excl_text,
                   disk>>
    /\ previews' = moved_previews

\* Where __get_previewpixmap_boundingbox finds the pixmap: the label is as
\* large as the layout makes it, so the pixmap starts at the label's origin
\* or further in.  Only left() and top() are read.
PixmapRects == {[left |-> 0, top |-> 0], [left |-> 32, top |-> 32]}

\* Is the position inside the pixmap drawn at pixmap_rect?
contains(pixmap_rect, size, position) ==
    /\ position[1] - pixmap_rect.left \in 0..(size[1] - 1)
    /\ position[2] - pixmap_rect.top \in 0..(size[2] - 1)

\* The voxels of the slice of a view, as the index pairs <<i, j>> of data.
slice_voxels(slaxis) ==
    (0..(slice_shape(slaxis)[1] - 1)) \X (0..(slice_shape(slaxis)[2] - 1))

\* The position in the label of the pixel that shows data[i, j].
shown_at(slaxis, v, pixmap_rect) ==
    <<pixmap_rect.left + numpy2grayscaleqimage(slaxis, v[1], v[2])[1],
      pixmap_rect.top + numpy2grayscaleqimage(slaxis, v[1], v[2])[2]>>

\* Positions beside the pixmap: past its far corner, and the label's origin
\* when the pixmap starts further in.
beside(slaxis, pixmap_rect) ==
    {<<pixmap_rect.left + qpixmap_size(slaxis)[1] + 2,
       pixmap_rect.top + qpixmap_size(slaxis)[2] + 2>>}
      \cup (IF pixmap_rect.left > 0 THEN {<<0, 0>>} ELSE {})

\* The clicks of the model: on the centre of each voxel shown, and beside
\* the pixmap.
ClickPositions(slaxis, pixmap_rect) ==
    {shown_at(slaxis, v, pixmap_rect) : v \in slice_voxels(slaxis)}
      \cup beside(slaxis, pixmap_rect)

(***************************************************************************)
(* One call of numpy2grayscaleqimage(data, res, rotate=...), in two steps: *)
(* rescaleSize is decided (lines 149-158), then the image is scaled to it  *)
(* and turned (lines 160-167).  data is given by its shape, res by two     *)
(* spacings in a common unit; sizes are <<width, height>>.                 *)
(***************************************************************************)
\* Most elements along one axis of a slice handed to numpy2grayscaleqimage.
MaxSide == 4
\* Largest voxel spacing along an axis, in units of the smallest.
MaxSpacing == 3

NoRender == [pc |-> "none"]

\* Line 152: rescaleSize starts as a copy of previewsize.
render_entry(shape, res, rot) ==
    [pc |-> "call", shape |-> shape, res |-> res, rotate |-> rot,
     rescaleSize |-> <<DEFAULT_PREVIEW_SIZE, DEFAULT_PREVIEW_SIZE>>,
     size |-> <<0, 0>>]

\* Lines 149-158.
render_rescaleSize ==
    /\ render.pc = "call"
    /\ render' = [render EXCEPT !.pc = "scale",
                                !.rescaleSize = rescaleSize(render.shape, render.res)]

\* Lines 160-167: the size of the image returned; the quarter turn swaps
\* width and height, mirroring keeps them.
render_scaled ==
    /\ render.pc = "scale"
    /\ render' = [render EXCEPT !.pc = "return",
                                !.size = IF render.rotate
                                         THEN <<render.rescaleSize[2],
                                                render.rescaleSize[1]>>
                                         ELSE render.rescaleSize]

(***************************************************************************)
(* The session.                                                            *)
(***************************************************************************)
SliderOff == [value |-> 0, maximum |-> 0]

InitSession ==
    /\ dti_obj = None
    /\ image_data = None
    /\ pixel_sizes = None
    /\ slider_imageno = SliderOff
    /\ slider_x = SliderOff
    /\ slider_y = SliderOff
    /\ slider_z = SliderOff
    /\ excl_text = str(<<>>)
    /\ disk = {}
    /\ lastOp = "init"
    /\ msg = "none"
    /\ raised = "none"
    /\ parse_err = "none"
    /\ exc = NoExc
    /\ did_exception_happen = FALSE
    /\ previews = {}

\* The session before any dataset, no rescaling or rendering under way.
Init == InitSession /\ rescale = NoCall /\ checks = {} /\ render = NoRender

session == <<dti_obj, image_data, pixel_sizes, slider_imageno, slider_x,
             slider_y, slider_z, excl_text, disk, lastOp, msg, raised,
             parse_err, exc, did_exception_happen, previews>>

\* One call of rescaleImageData, with any arguments, about to run.
InitRescale ==
    /\ InitSession
    /\ \E fastest \in BOOLEAN, quantileFunc \in {"percentile", "None"},
          signal \in BOOLEAN, dtype \in {"int", "float"}, build \in Builds,
          voxels \in 1..MaxVoxels, ndirs \in DirCounts :
          rescale = rescale_entry(fastest, quantileFunc, signal, dtype, build,
                                  voxels, ndirs)
    /\ checks = {}
    /\ render = NoRender

\* Datasets handed to load_data: <<nifti, ndirs, nbvals, nbvecs, shape_raises,
\* fresh>>.  The consistent ones, and the ones whose b-values, b-vectors or
\* both have another length, or whose shapes cannot be read.
LoadInputs ==
    UNION {
        {<<f, d, d, d, FALSE, fresh>> : fresh \in FreshSets(d)}
          \cup {<<f, d, d, d, TRUE, {}>>}
          \cup {<<f, d, n, d, FALSE, {}>> : n \in DirCounts \ {d}}
          \cup {<<f, d, d, n, FALSE, {}>> : n \in DirCounts \ {d}}
          \cup {<<f, d, n, n, FALSE, {}>> : n \in DirCounts \ {d}}
        : f \in Files, d \in DirCounts}

\* Longest spatial axis of the files.
AxisValues == 0..3

Load == \E i \in LoadInputs : load_data(i[1], i[2], i[3], i[4], i[5], i[6])

Replace == \E txt \in TypedTexts : __validate_text_excluded(txt)

Save == \E save_raises \in BOOLEAN : save_data(save_raises)

SlideDir == \E v \in 0..MaxDirs : imageno_valueChanged(v)

\* The data and exclusion handlers.
Next ==
    \/ Load /\ UNCHANGED <<rescale, checks, render>>
    \/ Replace /\ UNCHANGED <<rescale, checks, render>>
    \/ __exclude_dir /\ UNCHANGED <<rescale, checks, render>>
    \/ __reset_excluded /\ UNCHANGED <<rescale, checks, render>>
    \/ Save /\ UNCHANGED <<rescale, checks, render>>
    \/ SlideDir /\ UNCHANGED <<rescale, checks, render>>

Spec == Init /\ [][Next]_vars

\* Navigation: loads, the four sliders, and the handlers without text input.
NextNav ==
    \/ Load /\ UNCHANGED <<rescale, checks, render>>
    \/ __exclude_dir /\ UNCHANGED <<rescale, checks, render>>
    \/ __reset_excluded /\ UNCHANGED <<rescale, checks, render>>
    \/ Save /\ UNCHANGED <<rescale, checks, render>>
    \/ SlideDir /\ UNCHANGED <<rescale, checks, render>>
    \/ (\E v \in AxisValues : x_valueChanged(v)) /\ UNCHANGED <<rescale, checks, render>>
    \/ (\E v \in AxisValues : y_valueChanged(v)) /\ UNCHANGED <<rescale, checks, render>>
    \/ (\E v \in AxisValues : z_valueChanged(v)) /\ UNCHANGED <<rescale, checks, render>>

SpecNav == Init /\ [][NextNav]_vars

\* A consistent dataset is loaded; how many directions it has makes no
\* difference to a click.
LoadVolume == \E f \in Files : load_data(f, MaxDirs, MaxDirs, MaxDirs, FALSE, {})

\* A box is toggled.  The boxes of one view at a time are away from their
\* initial state: a click reads the boxes of its own view only.
Toggle ==
    \E slaxis \in Views : \E box \in BoxesOf(slaxis) :
        checks \subseteq BoxesOf(slaxis) /\ stateChanged(box)

PreviewClicked ==
    /\ is_data_loaded
    /\ \E slaxis \in Views, pixmap_rect \in PixmapRects :
          \E position \in ClickPositions(slaxis, pixmap_rect) :
              __preview_clicked(slaxis, position, pixmap_rect)

\* Looking at a dataset: loads, the preview boxes, clicks on the previews.
NextClick ==
    \/ LoadVolume /\ UNCHANGED <<rescale, checks, render>>
    \/ Toggle /\ UNCHANGED <<rescale, render>>
    \/ PreviewClicked /\ UNCHANGED <<rescale, checks, render>>

SpecClick == Init /\ [][NextClick]_vars

\* The steps of one call of rescaleImageData.
NextRescale ==
    \/ rescale_fastest /\ UNCHANGED <<session, checks, render>>
    \/ rescale_for /\ UNCHANGED <<session, checks, render>>
    \/ rescale_dir /\ UNCHANGED <<session, checks, render>>

SpecRescale == InitRescale /\ [][NextRescale]_vars

\* One call of numpy2grayscaleqimage, with any slice shape and spacings,
\* about to run.
InitRender ==
    /\ InitSession
    /\ rescale = NoCall
    /\ checks = {}
    /\ \E w \in 1..MaxSide, h \in 1..MaxSide, r0 \in 1..MaxSpacing,
          r1 \in 1..MaxSpacing, rot \in BOOLEAN :
          render = render_entry(<<w, h>>, <<r0, r1>>, rot)

\* The steps of one call of numpy2grayscaleqimage.
NextRender ==
    \/ render_rescaleSize /\ UNCHANGED <<session, rescale, checks>>
    \/ render_scaled /\ UNCHANGED <<session, rescale, checks>>

SpecRender == InitRender /\ [][NextRender]_vars


(***************************************************************************)
(* Properties.                                                             *)
(***************************************************************************)
\* Lines 451-453.
\* Line 370: lastdir for the loaded dataset.
lastdir_of_session == getSignalLength(dti_obj) - 1

\* The last handler validated a text that evaluated to a collection of ints.
ParsedInts == exc.parsed /\ \A e \in exc.value : isinstance_int(e)

\* txt is the text of the list of the members of S, ascending, each once.
IsSortedListOf(txt, S) ==
    /\ txt.form = "list"
    /\ \A k \in DOMAIN txt.elems : txt.elems[k].t = "int"
    /\ \A j, k \in DOMAIN txt.elems : j < k => txt.elems[j].v < txt.elems[k].v
    /\ {txt.elems[k].v : k \in DOMAIN txt.elems} = S

\* C1: with a dataset of D directions loaded, every member of the exclusion
\* set is an integer in [0, D-1] after any sequence of add, replace, clear
\* and load; a typed collection of ints with out-of-range entries, and an
\* add, raise nothing and show no error.
C1_ExcludedWithinRange ==
    is_data_loaded =>
        /\ dti_obj.EXCLUDED_DIRS \subseteq 0..lastdir_of_session
        /\ (lastOp = "replace" /\ ParsedInts) => (raised = "none" /\ msg = "none")
        /\ lastOp = "add" => (raised = "none" /\ msg = "none")

\* C1 witness: a typed list holding direction 0 and the first index past
\* the last direction was accepted, and only 0 is excluded.
C1_Witness ==
    /\ is_data_loaded
    /\ lastOp = "replace"
    /\ exc.value = {Int_(0), Int_(lastdir_of_session + 1)}
    /\ dti_obj.EXCLUDED_DIRS = {0}

\* C2: a replace whose text fails to evaluate to a collection (whatever
\* set(eval(text)) raises) shows the validation error, lets no exception
\* escape, and leaves the exclusion set as it was.
C2_ParseFailureReported ==
    [][(lastOp' = "replace" /\ parse_err' # "none")
          => (msg' = "Editing Error" /\ raised' = "none" /\ dti_obj' = dti_obj)]_vars

C5_AddCurrentDirection ==
    [][(lastOp' = "add" /\ is_data_loaded)
          => /\ dti_obj'.EXCLUDED_DIRS =
                    dti_obj.EXCLUDED_DIRS \cup {slider_imageno.value}
             /\ lastOp = "add" => dti_obj' = dti_obj]_vars

\* C5 witness: the selected direction was added to a set holding another.
C5_Witness ==
    /\ is_data_loaded
    /\ lastOp = "add"
    /\ slider_imageno.value \in dti_obj.EXCLUDED_DIRS
    /\ dti_obj.EXCLUDED_DIRS # {slider_imageno.value}

\* C6: after add, replace, clear and load the line edit shows the list of
\* the members of the exclusion set, ascending, each once; with no dataset
\* it shows the empty list.
C6_TextIsSortedList ==
    /\ (is_data_loaded /\ lastOp \in {"add", "replace", "clear", "load"})
          => IsSortedListOf(excl_text, dti_obj.EXCLUDED_DIRS)
    /\ ~is_data_loaded => IsSortedListOf(excl_text, {})

\* C7: a load refused for disagreeing direction counts shows the loading
\* error and keeps the session: dataset, rescaled volume, voxel spacing,
\* exclusion set, slice and direction indices.
C7_RejectedLoadKeepsState ==
    [][(lastOp' = "load" /\ msg' = "Error Loading")
          => UNCHANGED <<dti_obj, image_data, pixel_sizes, slider_imageno,
                         slider_x, slider_y, slider_z>>]_vars

\* C7 witness: a load was refused while a dataset with exclusions was loaded
\* and the direction and x sliders were away from where the load put them.
C7_Witness ==
    /\ is_data_loaded
    /\ lastOp = "load"
    /\ msg = "Error Loading"
    /\ dti_obj.EXCLUDED_DIRS # {}
    /\ slider_imageno.value > 0
    /\ slider_x.value # image_data.shape[0] \div 2

\* C8: the loaded dataset's numbers of b-values and of b-vectors both equal
\* its direction count D.
C8_LoadedCountsAgree ==
    is_data_loaded =>
        /\ dti_obj.bvals_shape0 = getSignalLength(dti_obj)
        /\ dti_obj.bvecs_shape1 = getSignalLength(dti_obj)
        /\ ~dti_obj.shape_raises

\* C8 witness: a dataset is loaded and a later load was refused.
C8_Witness == is_data_loaded /\ lastOp = "load" /\ msg = "Error Loading"

\* C9: the exclusion set is empty right after every successful load.
C9_LoadEmptiesExclusions ==
    (is_data_loaded /\ lastOp = "load" /\ msg = "none") => dti_obj.EXCLUDED_DIRS = {}

\* C9 witness: a dataset was loaded after exclusions of another file's
\* dataset were made and saved.
C9_Witness ==
    /\ is_data_loaded
    /\ lastOp = "load"
    /\ msg = "none"
    /\ disk # {}
    /\ dti_obj.FILENAME \notin disk
    /\ dti_obj.EXCLUDED_DIRS = {}

\* C10: when saveData raises, the save handler shows the save error and
\* returns: no exception escapes and the exclusion set is unchanged.
C10_SaveFailureReported ==
    [][(lastOp' = "save" /\ did_exception_happen')
          => (msg' = "SAVE ERROR" /\ raised' = "none" /\ dti_obj' = dti_obj)]_vars

\* C11: clear leaves the exclusion set of a loaded session empty, whatever
\* it held, and the line edit then shows the empty list.
C11_ClearEmpties ==
    [][(lastOp' = "clear" /\ is_data_loaded)
          => /\ dti_obj'.EXCLUDED_DIRS = {}
             /\ IsSortedListOf(excl_text', {})
             /\ raised' = "none"]_vars

\* C11 witness: the set is empty after a clear on a dataset whose
\* exclusions had been saved before (so it had been populated).
C11_Witness ==
    /\ is_data_loaded
    /\ lastOp = "clear"
    /\ dti_obj.FILENAME \in disk
    /\ dti_obj.EXCLUDED_DIRS = {}
    /\ excl_text = str(<<>>)

\* The per-direction modes of rescaleImageData, called with a signal.
rescale_reports == rescale.pc # "none" /\ ~rescale.fastest /\ rescale.signal

\* C12, as stated: progress event k is emitted after direction k has been
\* completed, so every event emitted so far names a direction already written.
C12_EventAfterChannel ==
    rescale_reports =>
        \A i \in DOMAIN rescale.events : rescale.events[i] <= rescale.written

\* C12, amended: the events are 1, 2, ... in order and event k opens iteration
\* k: when it is emitted exactly directions 1..k-1 have been written, and
\* direction k is written before the next event.
C12_EventBeforeChannel ==
    rescale_reports =>
        /\ \A i \in DOMAIN rescale.events : rescale.events[i] = i
        /\ Len(rescale.events) =
               rescale.written + (IF rescale.pc = "body" THEN 1 ELSE 0)

C12_Witness ==
    /\ rescale_reports /\ rescale.pc = "body"
    /\ rescale.events = <<1, 2>> /\ rescale.written = 1

\* rescaleImageData has written a direction in a per-direction mode; cdata,
\* maxValue and output are those of the direction written last.
direction_written ==
    rescale.pc \in {"for", "return"} /\ ~rescale.fastest /\ rescale.written > 0

\* C14: in fixed-depth mode every sample v maps to
\* floor(255 * clamp(v, 0, 4095) / 4095) and the cast never wraps.
C14_FixedDepthClamps ==
    (rescale.pc = "return" /\ rescale.fastest) =>
        \A i \in DOMAIN rescale.cdata :
            LET v == rescale.cdata[i]
                c == IF v < 0 THEN 0
                     ELSE IF v > maxValue_fastest THEN maxValue_fastest ELSE v
            IN  rescale.output[i] = (255 * c) \div maxValue_fastest

\* C15: in robust-percentile mode a direction with a strictly positive sample
\* is cast without wrap-around, and each of its samples at or above the
\* percentile cutoff maps to 255.
C15_RobustCutoffIsWhite ==
    (/\ direction_written /\ rescale.quantileFunc = "percentile"
     /\ \E i \in DOMAIN rescale.cdata : rescale.cdata[i] > 0) =>
        /\ ~rescale.overflowed
        /\ \A i \in DOMAIN rescale.cdata :
               1000 * rescale.cdata[i] >= rescale.maxValue
                   => rescale.output[i] = 255

\* C16: a direction whose samples are all zero is rescaled without a division
\* by zero, to an all-zero direction, in both per-direction modes.
C16_ZeroChannelNoDivision ==
    (/\ direction_written
     /\ \A i \in DOMAIN rescale.cdata : rescale.cdata[i] = 0) =>
        /\ ~rescale.divided_by_zero
        /\ \A i \in DOMAIN rescale.output : rescale.output[i] = 0

\* The selected index along a volume axis (0, 1, 2 for x, y, z).
index_along(a) ==
    CASE a = 0 -> slider_x.value [] a = 1 -> slider_y.value [] OTHER -> slider_z.value

\* The pixmap drawn at the origin of its label.
AtOrigin == [left |-> 0, top |-> 0]

\* C17: in each view and under every combination of its boxes, a click on the
\* pixel that shows voxel (i, j) of the slice, the pixmap being drawn at the
\* label's origin, selects in-plane indices within 1 of (i, j).
C17_RoundTrip ==
    [][\A slaxis \in Views :
          is_data_loaded =>
              \A v \in slice_voxels(slaxis) :
                  __preview_clicked(slaxis, shown_at(slaxis, v, AtOrigin), AtOrigin)
                      => /\ index_along(slice_axes(slaxis)[1])' - v[1] \in -1..1
                         /\ index_along(slice_axes(slaxis)[2])' - v[2] \in -1..1]_vars

\* C18: a click on the view of slicing axis A leaves the position along A and
\* the selected direction as they were, for A = x, y and z.
C18_ClickKeepsSliceAndDirection ==
    [][/\ lastOp' = "preview_clicked_x" => slider_x' = slider_x
       /\ lastOp' = "preview_clicked_y" => slider_y' = slider_y
       /\ lastOp' = "preview_clicked_z" => slider_z' = slider_z
       /\ lastOp' \in {"preview_clicked_x", "preview_clicked_y", "preview_clicked_z"}
              => slider_imageno' = slider_imageno /\ dti_obj' = dti_obj]_vars

\* A click on the yz preview of b.nii has moved y and z away from where the
\* load put them; x is where the load put it.
C18_Witness ==
    /\ is_data_loaded /\ dti_obj.FILENAME = "b.nii"
    /\ lastOp = "preview_clicked_x"
    /\ slider_x.value = 2 /\ slider_y.value = 0 /\ slider_z.value = 0

\* The inverse the views are to compute for a pixel p of the pixmap: the
\* mirrors undone first, the rotation second, and each coordinate of the
\* unrotated image scaled by the dimension of the slice axis it runs along.
located(slaxis, p) ==
    LET size == qpixmap_size(slaxis)
        s == rescaleSize(slice_shape(slaxis), slice_res(slaxis))
        m == mirrored(p, size, hflip(slaxis), vflip(slaxis))
        u == IF rotate(slaxis) THEN <<m[2], size[1] - 1 - m[1]>> ELSE m
    IN  <<(u[1] * slice_shape(slaxis)[1]) \div s[1],
          (u[2] * slice_shape(slaxis)[2]) \div s[2]>>

\* C19: in the views of slicing axes x and y a click on a shown voxel selects
\* the indices of the inverse that undoes the mirrors, then the rotation, and
\* scales each coordinate by the dimension of the axis it is assigned to.
C19_UnmirrorThenUnrotate ==
    [][\A slaxis \in {"x", "y"} :
          is_data_loaded =>
              \A v \in slice_voxels(slaxis) :
                  LET p == shown_at(slaxis, v, AtOrigin)
                  IN  __preview_clicked(slaxis, p, AtOrigin)
                        => /\ index_along(slice_axes(slaxis)[1])' = located(slaxis, p)[1]
                           /\ index_along(slice_axes(slaxis)[2])' = located(slaxis, p)[2]]_vars

\* C20: a click beside the drawn pixmap changes no slice index, and a click
\* inside it selects what the same click selects on a pixmap drawn at the
\* label's origin: both coordinates count from the rectangle's origin, in all
\* three views.
C20_ClickInsidePixmapOnly ==
    [][\A slaxis \in Views, pixmap_rect \in PixmapRects :
          is_data_loaded =>
              \A position \in ClickPositions(slaxis, pixmap_rect) :
                  __preview_clicked(slaxis, position, pixmap_rect)
                    => IF contains(pixmap_rect, qpixmap_size(slaxis), position)
                       THEN LET s == clicked(slaxis,
                                       <<position[1] - pixmap_rect.left,
                                         position[2] - pixmap_rect.top>>, AtOrigin)
                            IN  /\ slider_x' = s.x
                                /\ slider_y' = s.y
                                /\ slider_z' = s.z
                       ELSE UNCHANGED <<slider_x, slider_y, slider_z>>]_vars

\* The steps a call has left before its return.
steps_left ==
    IF rescale.pc = "return" THEN 0
    ELSE IF rescale.fastest THEN 1
    ELSE 2 * (rescale.shape[2] - rescale.dir_no)
           + (IF rescale.pc = "body" THEN 0 ELSE 1)

\* C21: a per-direction rescale of D directions with a signal has emitted, when
\* it returns, exactly the events 1, 2, ..., D in this order; every event is
\* emitted inside the call; the fastest mode, and a call without a signal,
\* emit none; and the call returns: a call that has not returned can take a
\* step, and every step leaves it fewer steps before the return.
C21_ExactlyDEventsThenReturn ==
    /\ [](rescale.pc = "return" =>
            rescale.events = IF rescale_reports
                             THEN [i \in 1..rescale.shape[2] |-> i] ELSE <<>>)
    /\ [](rescale.pc = "call" => rescale.events = <<>>)
    /\ [][rescale'.events # rescale.events
            => rescale.pc \in {"call", "for"} /\ rescale'.pc = "body"]_vars
    /\ [](rescale.pc # "return" => ENABLED NextRescale)
    /\ [][steps_left' < steps_left]_vars

C21_Witness ==
    /\ rescale_reports /\ rescale.pc = "return"
    /\ rescale.shape[2] = 2 /\ rescale.events = <<1, 2>> /\ rescale.written = 2

\* C25: while no dataset is loaded, the add, replace, clear and save handlers
\* change no session state, write no file and raise nothing.
C25_UnloadedHandlersAreNoOps ==
    [][(~is_data_loaded /\ lastOp' \in {"add", "replace", "clear", "save"})
         => /\ UNCHANGED <<dti_obj, image_data, pixel_sizes, sliders, excl_text,
                           disk, checks>>
            /\ msg' = "none" /\ raised' = "none"]_vars

C25_Witness ==
    /\ ~is_data_loaded /\ lastOp \in {"add", "replace", "clear", "save"}
    /\ excl_text = str(<<>>) /\ disk = {} /\ raised = "none"

\* C26: a file is written only by the save handler, for a loaded dataset with
\* a non-empty exclusion set; a save with an empty exclusion set writes
\* nothing and shows no message; add, replace, clear and load never write.
C26_OnlySaveWrites ==
    [][/\ disk' # disk
            => /\ lastOp' = "save" /\ is_data_loaded
               /\ dti_obj.EXCLUDED_DIRS # {}
       /\ (lastOp' = "save" /\ is_data_loaded /\ dti_obj.EXCLUDED_DIRS = {})
            => disk' = disk /\ msg' = "none" /\ raised' = "none"
       /\ lastOp' \in {"add", "replace", "clear", "load"} => disk' = disk]_vars

\* A save with an empty exclusion set, after an earlier save wrote the file.
C26_Witness ==
    /\ is_data_loaded /\ lastOp = "save" /\ msg = "none"
    /\ dti_obj.EXCLUDED_DIRS = {} /\ dti_obj.FILENAME \in disk

\* C22: the display size numpy2grayscaleqimage chooses follows the aspect
\* rule with truncation.  With vertical = spacing2 * dim1 and horizontal =
\* spacing1 * dim0: if vertical >= horizontal the height is the preview
\* box's and the width is the integer part of box height * horizontal /
\* vertical; otherwise the width is the box's and the height the integer
\* part of box width * vertical / horizontal.  One side equals the box's and
\* the other does not exceed it.  The integer part w of a / b is stated as
\* w * b <= a < (w + 1) * b.
C22_AspectRuleTruncates ==
    render.pc \in {"scale", "return"} =>
        LET vertical   == render.res[2] * render.shape[2]
            horizontal == render.res[1] * render.shape[1]
            width      == render.rescaleSize[1]
            height     == render.rescaleSize[2]
            box        == DEFAULT_PREVIEW_SIZE
        IN  /\ vertical >= horizontal
                  => /\ height = box
                     /\ width * vertical <= box * horizontal
                     /\ box * horizontal < (width + 1) * vertical
            /\ vertical < horizontal
                  => /\ width = box
                     /\ height * horizontal <= box * vertical
                     /\ box * vertical < (height + 1) * horizontal
            /\ (width = box /\ height \in 0..box) \/ (height = box /\ width \in 0..box)

\* A slice three times as wide as high has been sized: 256 by 85, the
\* integer part of 85.33.
C22_Witness ==
    /\ render.pc = "return"
    /\ render.shape = <<3, 2>> /\ render.res = <<2, 1>>
    /\ render.rescaleSize = <<256, 85>>

\* C23: every slice read for a preview has its x, y or z index and its
\* direction index within the bounds of the volume that is installed, after
\* any sequence of slider moves and loads, a load of a smaller dataset while
\* the sliders sit at positions of the previous one included.
C23_PreviewReadsInBounds ==
    \A p \in previews :
        /\ p.index \in 0..(image_data.shape[axis_no(p.slaxis)] - 1)
        /\ p.dir \in 0..(image_data.shape[3] - 1)

\* The direction index alone is always within bounds.
DirectionReadsInBounds ==
    \A p \in previews : p.dir \in 0..(image_data.shape[3] - 1)

\* Reads outside a load are within bounds.
ReadsOutsideLoadInBounds ==
    lastOp # "load" => C23_PreviewReadsInBounds

\* C24: for a click inside the drawn pixmap (on the pixel showing a voxel of
\* the slice, the pixmap at the label's origin), in each view and under every
\* combination of its boxes, each in-plane index the handler computes lies
\* in 0..dim-1 of the axis it is assigned to, before the slider takes it.
C24_ClickValuesInRange ==
    [][\A slaxis \in Views :
          is_data_loaded =>
              \A v \in slice_voxels(slaxis) :
                  __preview_clicked(slaxis, shown_at(slaxis, v, AtOrigin), AtOrigin)
                      => \A k \in 1..2 :
                            LET a == slice_axes(slaxis)[k]
                            IN  values(slaxis, shown_at(slaxis, v, AtOrigin), AtOrigin)[a]
                                  \in 0..(dti_obj.DIMS[a] - 1)]_vars

\* The same for a volume whose spatial dimensions are equal.
ClickValuesInRangeOfCube ==
    [][\A slaxis \in Views :
          (is_data_loaded /\ dti_obj.DIMS[0] = dti_obj.DIMS[1]
                          /\ dti_obj.DIMS[1] = dti_obj.DIMS[2]) =>
              \A v \in slice_voxels(slaxis) :
                  __preview_clicked(slaxis, shown_at(slaxis, v, AtOrigin), AtOrigin)
                      => \A k \in 1..2 :
                            LET a == slice_axes(slaxis)[k]
                            IN  values(slaxis, shown_at(slaxis, v, AtOrigin), AtOrigin)[a]
                                  \in 0..(dti_obj.DIMS[a] - 1)]_vars

====
